---- MODULE Spec2Model ----
(***************************************************************************)
(* Auto-healer: detection -> prediction -> healing orchestration.          *)
(*                                                                         *)
(* Python dicts are functions whose DOMAIN is the set of keys present, so  *)
(* dict.get(k, default) is Get(d, k, default).  Floats are integers:       *)
(* latencies in ms, kafka lag in messages, error rates in per-mille (so    *)
(* the literal 0.05 is 50).  Timestamps (query_time, timestamp) are left   *)
(* out of the dicts: no branch of the code reads them.                     *)
(***************************************************************************)
EXTENDS Integers, Sequences, FiniteSets, TLC

VARIABLES
    pc,                 \* per heal run: the await the coroutine is suspended at
    detection_result,   \* heal(): local of the run
    prediction_result,  \* heal(): local of the run
    healing_result,     \* heal(): local of the run (healer_agent's result)
    response,           \* what POST /heal answered for the run
    calls,              \* per run, per tool: number of call_mcp_tool invocations
    healing_history,    \* AutoHealerRootAgent.healing_history
    probe               \* last direct invocation of a detect_anomaly implementation

vars == <<pc, detection_result, prediction_result, healing_result, response,
          calls, healing_history, probe>>

-----------------------------------------------------------------------------
(* Bounds *)

NumRuns == 2

Runs == 1..NumRuns

-----------------------------------------------------------------------------
(* Python values *)

None == [py |-> "None"]

NoValue == [py |-> "unbound"]

Get(d, k, default) == IF k \in DOMAIN d THEN d[k] ELSE default

Merge(base, extra) ==
    [k \in (DOMAIN base) \cup (DOMAIN extra) |->
        IF k \in DOMAIN extra THEN extra[k] ELSE base[k]]

\* a nullable SQL aggregate: <<>> is NULL, <<v>> is the value v
OrZero(x) == IF x = <<>> THEN 0 ELSE x[1]

Tools == {"detect_anomaly", "predict_risk", "scale_service",
          "restart_service", "verify_health"}

-----------------------------------------------------------------------------
(* Program constants *)

LATENCY_THRESHOLD_MS == 500

KAFKA_LAG_THRESHOLD == 5000

ERROR_RATE_THRESHOLD == 50

-----------------------------------------------------------------------------
(* detect_anomaly: the rule engine, shared text of both implementations *)

Metrics(row) ==
    [avg_latency_ms |-> OrZero(row.avg_latency_ms),
     max_latency_ms |-> OrZero(row.max_latency_ms),
     avg_kafka_lag  |-> OrZero(row.avg_kafka_lag),
     max_kafka_lag  |-> OrZero(row.max_kafka_lag),
     avg_error_rate |-> OrZero(row.avg_error_rate),
     sample_count   |-> row.sample_count]

LatencyRuleMut(metrics, latency_threshold_ms) ==
    metrics.avg_latency_ms >= latency_threshold_ms

LatencyRule(metrics, latency_threshold_ms) ==
    metrics.avg_latency_ms > latency_threshold_ms

KafkaLagRule(metrics, kafka_lag_threshold) ==
    metrics.avg_kafka_lag > kafka_lag_threshold

ErrorRateRule(metrics) ==
    metrics.avg_error_rate > ERROR_RATE_THRESHOLD

LatencyViolation(metrics, thr) ==
    [rule |-> "Latency violation", observed |-> metrics.avg_latency_ms,
     threshold |-> thr]

KafkaLagViolation(metrics, thr) ==
    [rule |-> "Kafka lag violation", observed |-> metrics.avg_kafka_lag,
     threshold |-> thr]

ErrorRateViolation(metrics) ==
    [rule |-> "Error rate violation", observed |-> metrics.avg_error_rate,
     threshold |-> ERROR_RATE_THRESHOLD]


\* lines 139-158 of mcp_server.py, 161-180 of mcp_tools.py: the three rules are
\* evaluated in this order, each appending its violation when it fires
ViolationsMut(metrics, latency_threshold_ms, kafka_lag_threshold) ==
    (IF ErrorRateRule(metrics)
        THEN <<ErrorRateViolation(metrics)>> ELSE <<>>)
    \o (IF LatencyRule(metrics, latency_threshold_ms)
        THEN <<LatencyViolation(metrics, latency_threshold_ms)>> ELSE <<>>)
    \o (IF KafkaLagRule(metrics, kafka_lag_threshold)
        THEN <<KafkaLagViolation(metrics, kafka_lag_threshold)>> ELSE <<>>)

Violations(metrics, latency_threshold_ms, kafka_lag_threshold) ==
    (IF LatencyRule(metrics, latency_threshold_ms)
        THEN <<LatencyViolation(metrics, latency_threshold_ms)>> ELSE <<>>)
    \o (IF KafkaLagRule(metrics, kafka_lag_threshold)
        THEN <<KafkaLagViolation(metrics, kafka_lag_threshold)>> ELSE <<>>)
    \o (IF ErrorRateRule(metrics)
        THEN <<ErrorRateViolation(metrics)>> ELSE <<>>)

\* the flag is set by the same three branches that append
AnomalyFlagMut(metrics, latency_threshold_ms, kafka_lag_threshold) ==
    \/ LatencyRule(metrics, latency_threshold_ms)
    \/ KafkaLagRule(metrics, kafka_lag_threshold)

AnomalyFlag(metrics, latency_threshold_ms, kafka_lag_threshold) ==
    \/ LatencyRule(metrics, latency_threshold_ms)
    \/ KafkaLagRule(metrics, kafka_lag_threshold)
    \/ ErrorRateRule(metrics)

Recommendation(anomaly_detected, violations) ==
    IF anomaly_detected
    THEN <<"CRITICAL: requires immediate attention", Len(violations)>>
    ELSE <<"operating within normal parameters">>

RowResult(service, row, latency_threshold_ms, kafka_lag_threshold) ==
    LET metrics == Metrics(row)
        violations == Violations(metrics, latency_threshold_ms, kafka_lag_threshold)
        anomaly_detected ==
            AnomalyFlag(metrics, latency_threshold_ms, kafka_lag_threshold)
    IN  [anomaly_detected |-> anomaly_detected,
         service          |-> service,
         metrics          |-> metrics,
         violations       |-> violations,
         recommendation   |-> Recommendation(anomaly_detected, violations)]

NoDataResultMut(service) ==
    [anomaly_detected |-> FALSE,
     service          |-> service,
     metrics          |-> None,
     violations       |-> <<>>,
     recommendation   |-> <<"No metrics found">>,
     error            |-> "TABLE_NOT_FOUND"]

NoDataResult(service) ==
    [anomaly_detected |-> FALSE,
     service          |-> service,
     metrics          |-> None,
     violations       |-> <<>>,
     recommendation   |-> <<"No metrics found">>,
     error            |-> "NO_DATA"]

\* every except clause answering with the no-data block's error kind
StoreErrorResultMut(service, exc) ==
    [anomaly_detected |-> FALSE,
     service          |-> service,
     metrics          |-> None,
     violations       |-> <<>>,
     recommendation   |-> <<"Error querying metrics">>,
     error            |-> "NO_DATA"]

\* the except clauses of mcp_tools.detect_anomaly; `exc` is the exception class
StoreErrorResult(service, exc) ==
    [anomaly_detected |-> FALSE,
     service          |-> service,
     metrics          |-> None,
     violations       |-> <<>>,
     recommendation   |->
        IF exc = "NotFound" THEN <<"BigQuery table not found">>
        ELSE IF exc = "Forbidden" THEN <<"Permission denied">>
        ELSE <<"Error querying metrics">>,
     error            |->
        IF exc = "NotFound" THEN "TABLE_NOT_FOUND"
        ELSE IF exc = "Forbidden" THEN "PERMISSION_DENIED"
        ELSE exc]

\* mcp_tools.detect_anomaly (the FastMCP tool): returns a dict, never raises
tools_detect_anomaly(store, service, latency_threshold_ms, kafka_lag_threshold) ==
    IF store.kind = "raise" THEN StoreErrorResult(service, store.exc)
    ELSE IF store.kind = "empty" THEN NoDataResult(service)
    ELSE RowResult(service, store.row, latency_threshold_ms, kafka_lag_threshold)

\* mcp_server.detect_anomaly (POST /tools/detect_anomaly): an HTTP answer
server_detect_anomaly(store, service, latency_threshold_ms, kafka_lag_threshold) ==
    IF store.kind = "raise"
    THEN [status |-> 500, detail |-> store.exc]
    ELSE IF store.kind = "empty"
    THEN [status |-> 200, body |-> NoDataResult(service)]
    ELSE [status |-> 200,
          body |-> RowResult(service, store.row,
                             latency_threshold_ms, kafka_lag_threshold)]

-----------------------------------------------------------------------------
(* root_agent.py: call_mcp_tool *)

\* `http` is what the POST produced: an answer with a status, or a transport
\* failure (kind "transport").  raise_for_status turns a 4xx/5xx answer into
\* httpx.HTTPStatusError, whose text does not carry the answer's detail.
call_mcp_tool(tool_name, http) ==
    IF "status" \in DOMAIN http /\ http.status = 200 THEN http.body
    ELSE [error   |-> IF "status" \in DOMAIN http
                      THEN "Server error '500 Internal Server Error'"
                      ELSE http.exc,
          tool    |-> tool_name,
          success |-> FALSE]

-----------------------------------------------------------------------------
(* mcp_server.py: predict_risk, POST /tools/predict_risk *)

FALLBACK_LATENCY_MS == 1500

\* a JSON number and a JSON string, told apart as Python tells int from str
JInt(n) == [type |-> "int", value |-> n]

JStr(s) == [type |-> "str", value |-> s]

FallbackPrediction(metrics) ==
    LET avg_latency == Get(metrics, "avg_latency_ms", 0)
        error_rate  == Get(metrics, "avg_error_rate", 0)
    IN  IF avg_latency > FALLBACK_LATENCY_MS \/ error_rate > ERROR_RATE_THRESHOLD
        THEN [risk_score         |-> JInt(85),
              root_cause         |-> "High latency and error rate indicate resource constraints",
              recommended_action |-> "scale_up",
              confidence         |-> "high",
              reasoning          |-> "Metrics exceed thresholds, scaling recommended"]
        ELSE [risk_score         |-> JInt(50),
              root_cause         |-> "Minor performance degradation detected",
              recommended_action |-> "monitor",
              confidence         |-> "medium",
              reasoning          |-> "Metrics slightly elevated, continue monitoring"]

\* the failure assessment recommending a restart
PredictFailureMut(service, message) ==
    [success            |-> FALSE,
     error              |-> message,
     service            |-> service,
     risk_score         |-> JInt(0),
     recommended_action |-> "restart",
     confidence         |-> "low"]

PredictFailure(service, message) ==
    [success            |-> FALSE,
     error              |-> message,
     service            |-> service,
     risk_score         |-> JInt(0),
     recommended_action |-> "monitor",
     confidence         |-> "low"]

\* the text parsed first, the fallback only when json.loads rejects it
server_predict_riskMut(reasoning, service, metrics) ==
    IF reasoning.kind = "raise" THEN PredictFailure(service, reasoning.exc)
    ELSE IF reasoning.parse = "ok"
    THEN Merge([success |-> TRUE, service |-> service], reasoning.json)
    ELSE IF reasoning.lbraces # reasoning.rbraces
    THEN Merge([success |-> TRUE, service |-> service], FallbackPrediction(metrics))
    ELSE IF reasoning.parse = "JSONDecodeError"
    THEN PredictFailure(service, "JSONDecodeError")
    ELSE PredictFailure(service, "TypeError")

\* `reasoning` is what gemini.generate_content did: it raised, or it returned a
\* text with `lbraces` '{' and `rbraces` '}' that json.loads, after the
\* clean-up of lines 308-324, either rejects or parses to the object `json`
server_predict_risk(reasoning, service, metrics) ==
    IF reasoning.kind = "raise" THEN PredictFailure(service, reasoning.exc)
    ELSE IF reasoning.lbraces # reasoning.rbraces
    THEN Merge([success |-> TRUE, service |-> service], FallbackPrediction(metrics))
    ELSE IF reasoning.parse = "JSONDecodeError"
    THEN PredictFailure(service, "JSONDecodeError")
    ELSE IF reasoning.parse = "not an object"
    THEN PredictFailure(service, "TypeError")
    ELSE Merge([success |-> TRUE, service |-> service], reasoning.json)

-----------------------------------------------------------------------------
(* mcp_server.py: the controller endpoints *)

\* `proc` is what subprocess.run did: it raised (TimeoutExpired,
\* FileNotFoundError), or the command exited with `code`
server_scale_service(proc, service, min_instances, max_instances) ==
    IF proc.kind = "raise" THEN [status |-> 500, detail |-> proc.exc]
    ELSE IF proc.code = 0
    THEN [status |-> 200,
          body |-> [success |-> TRUE, service |-> service, action |-> "scaled",
                    min_instances |-> min_instances,
                    max_instances |-> max_instances]]
    ELSE [status |-> 200,
          body |-> [success |-> FALSE, service |-> service,
                    error |-> proc.stderr]]

server_restart_service(proc, service) ==
    IF proc.kind = "raise" THEN [status |-> 500, detail |-> proc.exc]
    ELSE IF proc.code = 0
    THEN [status |-> 200,
          body |-> [success |-> TRUE, service |-> service, action |-> "restarted"]]
    ELSE [status |-> 200,
          body |-> [success |-> FALSE, service |-> service,
                    error |-> proc.stderr]]

\* lines 484-487: any condition of type Ready whose status is "True"; a
\* describe output without status.conditions has none
ServerReady(proc) ==
    LET conditions == Get(proc, "conditions", <<>>)
    IN  \E i \in 1..Len(conditions) :
           /\ conditions[i].type = "Ready"
           /\ conditions[i].status = "True"

\* on exit 0 the describe output carries status.conditions, `proc.conditions`
server_verify_health(proc, service) ==
    IF proc.kind = "raise" THEN [status |-> 500, detail |-> proc.exc]
    ELSE IF proc.code = 0
    THEN [status |-> 200,
          body |-> [success |-> TRUE, service |-> service,
                    ready |-> ServerReady(proc)]]
    ELSE [status |-> 200,
          body |-> [success |-> FALSE, service |-> service,
                    error |-> proc.stderr]]

-----------------------------------------------------------------------------
(* root_agent.py: AutoHealerRootAgent *)

ALERT_MESSAGE == "Anomaly detected"

\* heal() line 380: `if not detection_result.get("anomaly_detected")`
ShortCircuitMut(detection) == ~Get(detection, "anomaly_detected", TRUE)

ShortCircuit(detection) == ~Get(detection, "anomaly_detected", FALSE)

NoAnomalyResult(detection) ==
    [success      |-> TRUE,
     action_taken |-> "none",
     message      |-> "Service operating normally",
     detection    |-> detection]

\* an alias table whose target "scale_out" is itself an alias
action_aliasesMut ==
    [scale_out       |-> "scale_up",
     scale           |-> "scale_out",
     restart_service |-> "restart",
     alert           |-> "escalate_human"]

\* an alias table that lost its last row
action_aliasesShort ==
    [scale_out       |-> "scale_up",
     scale           |-> "scale_up",
     restart_service |-> "restart"]

action_aliases ==
    [scale_out       |-> "scale_up",
     scale           |-> "scale_up",
     restart_service |-> "restart",
     alert           |-> "escalate_human"]

\* an unknown recommendation coerced to "monitor" instead of passed through
normalized_actionMut(recommended_action) ==
    Get(action_aliases, recommended_action, "monitor")

normalized_action(recommended_action) ==
    Get(action_aliases, recommended_action, recommended_action)

\* the top tier starting above 80 instead of at 80
ScaleBoundsMut(risk_score) ==
    IF risk_score > 80 THEN <<5, 20>>
    ELSE IF risk_score >= 50 THEN <<3, 15>>
    ELSE <<2, 10>>

\* healer_agent lines 262-270: <<min_instances, max_instances>>
ScaleBounds(risk_score) ==
    IF risk_score >= 80 THEN <<5, 20>>
    ELSE IF risk_score >= 50 THEN <<3, 15>>
    ELSE <<2, 10>>

MonitorResult ==
    [success |-> TRUE, action |-> "monitor",
     message |-> "No immediate action required"]

EscalateResult ==
    [success |-> TRUE, action |-> "escalated",
     message |-> "Alert sent to on-call"]

UnknownActionResult(action) ==
    [success |-> FALSE, error |-> <<"Unknown action", action>>]

\* monitor checking the service through the controller before it answers
healer_agentMut(action, risk_score) ==
    IF action = "scale_up"
    THEN IF risk_score.type = "int"
         THEN [do |-> "post", tool |-> "scale_service",
               min_instances |-> ScaleBounds(risk_score.value)[1],
               max_instances |-> ScaleBounds(risk_score.value)[2]]
         ELSE [do |-> "raise", exc |-> "TypeError"]
    ELSE IF action = "restart"
    THEN [do |-> "post", tool |-> "restart_service"]
    ELSE IF action = "monitor"
    THEN [do |-> "post", tool |-> "verify_health"]
    ELSE IF action = "escalate_human"
    THEN [do |-> "return", result |-> EscalateResult]
    ELSE [do |-> "return", result |-> UnknownActionResult(action)]

\* an unknown action falling through to the monitor branch
healer_agentLenient(action, risk_score) ==
    IF action = "scale_up"
    THEN IF risk_score.type = "int"
         THEN [do |-> "post", tool |-> "scale_service",
               min_instances |-> ScaleBounds(risk_score.value)[1],
               max_instances |-> ScaleBounds(risk_score.value)[2]]
         ELSE [do |-> "raise", exc |-> "TypeError"]
    ELSE IF action = "restart"
    THEN [do |-> "post", tool |-> "restart_service"]
    ELSE IF action = "escalate_human"
    THEN [do |-> "return", result |-> EscalateResult]
    ELSE [do |-> "return", result |-> MonitorResult]

\* healer_agent lines 260-340, up to its first await: what it does with the
\* action and the risk score it is handed.  `risk_score >= 80` raises
\* TypeError when the score is not a number.
healer_agent(action, risk_score) ==
    IF action = "scale_up"
    THEN IF risk_score.type = "int"
         THEN [do |-> "post", tool |-> "scale_service",
               min_instances |-> ScaleBounds(risk_score.value)[1],
               max_instances |-> ScaleBounds(risk_score.value)[2]]
         ELSE [do |-> "raise", exc |-> "TypeError"]
    ELSE IF action = "restart"
    THEN [do |-> "post", tool |-> "restart_service"]
    ELSE IF action = "monitor"
    THEN [do |-> "return", result |-> MonitorResult]
    ELSE IF action = "escalate_human"
    THEN [do |-> "return", result |-> EscalateResult]
    ELSE [do |-> "return", result |-> UnknownActionResult(action)]

\* the ready flag left out of the test
VerificationMut(verify_result) ==
    IF Get(verify_result, "success", FALSE) THEN "healthy" ELSE "pending"

\* healer_agent lines 294-299: the verification written into the scale result
Verification(verify_result) ==
    IF Get(verify_result, "success", FALSE) /\ Get(verify_result, "ready", FALSE)
    THEN "healthy" ELSE "pending"

\* heal() lines 416-432
Report(service, detection, prediction, healing) ==
    [success       |-> TRUE,
     service       |-> service,
     alert_message |-> ALERT_MESSAGE,
     detection     |-> detection,
     prediction    |-> prediction,
     healing       |-> healing,
     summary       |->
        [anomaly_detected |-> TRUE,
         risk_score       |-> Get(prediction, "risk_score", JInt(0)),
         action_taken     |-> Get(prediction, "recommended_action", "monitor"),
         success          |-> Get(healing, "success", FALSE)]]

-----------------------------------------------------------------------------
(* The collaborators: what the store, the reasoning service, the controller *)
(* and the transport can answer                                             *)

Row(latency, lag, rate) ==
    [avg_latency_ms |-> latency, max_latency_ms |-> latency,
     avg_kafka_lag  |-> lag,     max_kafka_lag  |-> lag,
     avg_error_rate |-> rate,    sample_count   |-> 1]

StoreErrors ==
    {[kind |-> "raise", exc |-> e] : e \in {"NotFound", "Forbidden", "BadRequest"}}

\* the aggregates a heal run can meet: none over, latency just over, all over
HealRows ==
    {Row(<<500>>, <<5000>>, <<50>>),
     Row(<<501>>, <<5000>>, <<50>>),
     Row(<<1501>>, <<5001>>, <<51>>)}

HealStores ==
    {[kind |-> "rows", row |-> row] : row \in HealRows}
    \cup {[kind |-> "empty"]} \cup StoreErrors

Transport == {[exc |-> "ConnectError"]}

ReasoningObject(risk_score, action) ==
    [risk_score         |-> risk_score,
     root_cause         |-> "cause",
     recommended_action |-> action,
     confidence         |-> "high",
     reasoning          |-> "because"]

ReasoningObjects ==
    {ReasoningObject(JInt(90), "scale_up"),
     ReasoningObject(JInt(60), "scale_out"),
     ReasoningObject(JStr("high"), "scale_up"),
     ReasoningObject(JInt(90), "restart"),
     ReasoningObject(JInt(30), "monitor"),
     ReasoningObject(JInt(70), "alert"),
     ReasoningObject(JInt(90), "Scale_Up"),
     [root_cause |-> "cause"]}

Reasonings ==
    {[kind |-> "text", lbraces |-> 1, rbraces |-> 1, parse |-> "ok", json |-> o] :
        o \in ReasoningObjects}
    \cup {[kind |-> "text", lbraces |-> 1, rbraces |-> 0, parse |-> "JSONDecodeError"],
          [kind |-> "text", lbraces |-> 0, rbraces |-> 0, parse |-> "JSONDecodeError"],
          [kind |-> "text", lbraces |-> 0, rbraces |-> 0, parse |-> "not an object"],
          [kind |-> "raise", exc |-> "ServiceUnavailable"]}

Procs ==
    {[kind |-> "exit", code |-> 0,
      conditions |-> <<[type |-> "Ready", status |-> "True"]>>],
     [kind |-> "exit", code |-> 0,
      conditions |-> <<[type |-> "Ready", status |-> "False"]>>],
     [kind |-> "exit", code |-> 1, stderr |-> "ERROR: (gcloud.run)"],
     [kind |-> "raise", exc |-> "TimeoutExpired"],
     [kind |-> "raise", exc |-> "FileNotFoundError"]}

-----------------------------------------------------------------------------
(* heal(): one action per stretch of the coroutine between two awaits *)

Init ==
    /\ pc = [r \in Runs |-> "idle"]
    /\ detection_result = [r \in Runs |-> NoValue]
    /\ prediction_result = [r \in Runs |-> NoValue]
    /\ healing_result = [r \in Runs |-> NoValue]
    /\ response = [r \in Runs |-> NoValue]
    /\ calls = [r \in Runs |-> [t \in Tools |-> 0]]
    /\ healing_history = <<>>
    /\ probe = NoValue

\* call_mcp_tool posts the request and awaits the answer
Post(r, tool) ==
    /\ pc' = [pc EXCEPT ![r] = tool]
    /\ calls' = [calls EXCEPT ![r][tool] = @ + 1]

\* heal() lines 382-387: the early return
ReturnNoAnomaly(r, detection) ==
    /\ pc' = [pc EXCEPT ![r] = "returned"]
    /\ response' = [response EXCEPT
                      ![r] = [status |-> 200, body |-> NoAnomalyResult(detection)]]
    /\ UNCHANGED <<calls, healing_history>>

\* datetime.utcnow() is read off `probe` where it holds a clock
Clocked == "now" \in DOMAIN probe

\* heal() lines 413-414 and 420-422: the times of the report; start_time was
\* read at line 368, end_time is read after the healing stage returned
Times(r) ==
    IF Clocked
    THEN [start_time       |-> probe.start_time[r],
          end_time         |-> probe.now,
          duration_seconds |-> probe.now - probe.start_time[r]]
    ELSE <<>>

\* a history kept in the order of the runs' start times
history_appendMut(history, report) ==
    IF "start_time" \in DOMAIN report
    THEN LET k == Cardinality({i \in 1..Len(history) :
                                 history[i].start_time <= report.start_time})
         IN  SubSeq(history, 1, k) \o <<report>>
                \o SubSeq(history, k + 1, Len(history))
    ELSE Append(history, report)

\* heal() line 435: self.healing_history.append(report)
history_append(history, report) == Append(history, report)

\* heal() lines 412-447: build the report, append it, return it
ReturnReport(r, prediction, healing) ==
    LET report == Merge(Report(r, detection_result[r], prediction, healing),
                        Times(r))
    IN  /\ healing_result' = [healing_result EXCEPT ![r] = healing]
        /\ healing_history' = history_append(healing_history, report)
        /\ response' = [response EXCEPT ![r] = [status |-> 200, body |-> report]]
        /\ pc' = [pc EXCEPT ![r] = "returned"]
        /\ UNCHANGED calls

\* heal_endpoint line 509-510: an exception out of heal() answers 500
Raise(r, exc) ==
    /\ pc' = [pc EXCEPT ![r] = "raised"]
    /\ response' = [response EXCEPT ![r] = [status |-> 500, detail |-> exc]]
    /\ UNCHANGED <<calls, healing_history, healing_result>>

\* the answers each POST can get
DetectAnswers(r) ==
    {server_detect_anomaly(store, r, LATENCY_THRESHOLD_MS, KAFKA_LAG_THRESHOLD) :
        store \in HealStores} \cup Transport

\* heal() line 390 and predictor_agent lines 211-218: the predict_risk request
PredictRequest(service, detection) ==
    [service_name |-> service,
     metrics      |-> Get(detection, "metrics", <<>>)]

PredictAnswers(r) ==
    LET request == PredictRequest(r, detection_result[r])
    IN  {[status |-> 200,
          body |-> server_predict_risk(reasoning, request.service_name,
                                       request.metrics)] :
            reasoning \in Reasonings} \cup Transport

ScaleAnswers(r) ==
    LET risk_score == Get(prediction_result[r], "risk_score", JInt(0)).value
        bounds == ScaleBounds(risk_score)
    IN  {server_scale_service(proc, r, bounds[1], bounds[2]) : proc \in Procs}
        \cup Transport

RestartAnswers(r) == {server_restart_service(proc, r) : proc \in Procs} \cup Transport

VerifyAnswers(r) == {server_verify_health(proc, r) : proc \in Procs} \cup Transport

\* heal() posting predict_risk without awaiting detector_agent first
HealStartMut(r) ==
    /\ pc[r] = "idle"
    /\ Post(r, "predict_risk")
    /\ UNCHANGED <<detection_result, prediction_result, healing_result,
                   response, healing_history, probe>>

\* POST /heal arrives: heal() runs to the await in detector_agent
HealStart(r) ==
    /\ pc[r] = "idle"
    /\ Post(r, "detect_anomaly")
    /\ UNCHANGED <<detection_result, prediction_result, healing_result,
                   response, healing_history, probe>>

\* the detect_anomaly answer arrives: lines 173-181, 380-391, to the next await
DetectorReturns(r) ==
    /\ pc[r] = "detect_anomaly"
    /\ \E http \in DetectAnswers(r) :
        LET detection == call_mcp_tool("detect_anomaly", http)
        IN  /\ detection_result' = [detection_result EXCEPT ![r] = detection]
            /\ IF ShortCircuit(detection)
               THEN ReturnNoAnomaly(r, detection)
               ELSE Post(r, "predict_risk") /\ UNCHANGED <<response, healing_history>>
    /\ UNCHANGED <<prediction_result, healing_result, probe>>

\* the healer handed the recommended action as the reasoning service wrote it
PredictorReturnsMut(r) ==
    /\ pc[r] = "predict_risk"
    /\ \E http \in PredictAnswers(r) :
       LET prediction == call_mcp_tool("predict_risk", http)
           risk_score == Get(prediction, "risk_score", JInt(0))
           action == Get(prediction, "recommended_action", "monitor")
           step == healer_agent(action, risk_score)
       IN  /\ prediction_result' = [prediction_result EXCEPT ![r] = prediction]
           /\ IF step.do = "post"
              THEN /\ Post(r, step.tool)
                   /\ UNCHANGED <<healing_result, response, healing_history>>
              ELSE IF step.do = "raise"
              THEN Raise(r, step.exc)
              ELSE ReturnReport(r, prediction, step.result)
    /\ UNCHANGED <<detection_result, probe>>

\* the predict_risk answer arrives: lines 220-231, 393-410 and healer_agent
\* up to its first await, or to the end of heal() when it awaits nothing
PredictorReturns(r) ==
    /\ pc[r] = "predict_risk"
    /\ \E http \in PredictAnswers(r) :
       LET prediction == call_mcp_tool("predict_risk", http)
           risk_score == Get(prediction, "risk_score", JInt(0))
           action == normalized_action(
                        Get(prediction, "recommended_action", "monitor"))
           step == healer_agent(action, risk_score)
       IN  /\ prediction_result' = [prediction_result EXCEPT ![r] = prediction]
           /\ IF step.do = "post"
              THEN /\ Post(r, step.tool)
                   /\ UNCHANGED <<healing_result, response, healing_history>>
              ELSE IF step.do = "raise"
              THEN Raise(r, step.exc)
              ELSE ReturnReport(r, prediction, step.result)
    /\ UNCHANGED <<detection_result, probe>>

\* healer_agent posting scale_service again when the answer is a failure
ScaleReturnsMut(r) ==
    /\ pc[r] = "scale_service"
    /\ \E http \in ScaleAnswers(r) :
       LET result == call_mcp_tool("scale_service", http)
       IN  IF Get(result, "success", FALSE)
           THEN /\ healing_result' = [healing_result EXCEPT ![r] = result]
                /\ pc' = [pc EXCEPT ![r] = "sleep"]
                /\ UNCHANGED <<response, calls, healing_history>>
           ELSE /\ Post(r, "scale_service")
                /\ UNCHANGED <<healing_result, response, healing_history>>
    /\ UNCHANGED <<detection_result, prediction_result, probe>>

\* the verification started whatever the scale answered
ScaleReturnsUnchecked(r) ==
    /\ pc[r] = "scale_service"
    /\ \E http \in ScaleAnswers(r) :
       LET result == call_mcp_tool("scale_service", http)
       IN  /\ healing_result' = [healing_result EXCEPT ![r] = result]
           /\ pc' = [pc EXCEPT ![r] = "sleep"]
           /\ UNCHANGED <<response, calls, healing_history>>
    /\ UNCHANGED <<detection_result, prediction_result, probe>>

\* the scale_service answer arrives: lines 282-303
ScaleReturns(r) ==
    /\ pc[r] = "scale_service"
    /\ \E http \in ScaleAnswers(r) :
       LET result == call_mcp_tool("scale_service", http)
       IN  IF Get(result, "success", FALSE)
           THEN /\ healing_result' = [healing_result EXCEPT ![r] = result]
                /\ pc' = [pc EXCEPT ![r] = "sleep"]
                /\ UNCHANGED <<response, calls, healing_history>>
           ELSE ReturnReport(r, prediction_result[r], result)
    /\ UNCHANGED <<detection_result, prediction_result, probe>>

\* asyncio.sleep(10) is over: line 289 posts verify_health
SleepReturns(r) ==
    /\ pc[r] = "sleep"
    /\ Post(r, "verify_health")
    /\ UNCHANGED <<detection_result, prediction_result, healing_result,
                   response, healing_history, probe>>

\* a pending verification reported as a failed healing
VerifyReturnsMut(r) ==
    /\ pc[r] = "verify_health"
    /\ \E http \in VerifyAnswers(r) :
       LET verify_result == call_mcp_tool("verify_health", http)
           verification == Verification(verify_result)
       IN  ReturnReport(r, prediction_result[r],
                        Merge(healing_result[r],
                              [verification |-> verification,
                               success      |-> verification = "healthy"]))
    /\ UNCHANGED <<detection_result, prediction_result, probe>>

\* the verify_health answer arrives: lines 294-303
VerifyReturns(r) ==
    /\ pc[r] = "verify_health"
    /\ \E http \in VerifyAnswers(r) :
       LET verify_result == call_mcp_tool("verify_health", http)
       IN  ReturnReport(r, prediction_result[r],
                        Merge(healing_result[r],
                              [verification |-> Verification(verify_result)]))
    /\ UNCHANGED <<detection_result, prediction_result, probe>>

\* the restart_service answer arrives: lines 311-316
RestartReturns(r) ==
    /\ pc[r] = "restart_service"
    /\ \E http \in RestartAnswers(r) :
        ReturnReport(r, prediction_result[r],
                     call_mcp_tool("restart_service", http))
    /\ UNCHANGED <<detection_result, prediction_result, probe>>

Next ==
    \E r \in Runs :
        \/ HealStart(r)
        \/ DetectorReturns(r)
        \/ PredictorReturns(r)
        \/ ScaleReturns(r)
        \/ SleepReturns(r)
        \/ VerifyReturns(r)
        \/ RestartReturns(r)

Spec == Init /\ [][Next]_vars

-----------------------------------------------------------------------------
(* detect_anomaly called directly, on every store outcome and threshold *)

Aggregates(values) == {<<>>} \cup {<<v>> : v \in values}

ProbeStores ==
    {[kind |-> "rows", row |-> Row(latency, lag, rate)] :
        latency \in Aggregates({0, 500, 501, 1800}),
        lag \in Aggregates({5000, 5001}),
        rate \in Aggregates({50, 51})}
    \cup {[kind |-> "empty"]} \cup StoreErrors

ProbeLatencyThresholds == {0, LATENCY_THRESHOLD_MS}

ProbeKafkaLagThresholds == {0, KAFKA_LAG_THRESHOLD}

\* the FastMCP tool of mcp_tools.py is invoked
ToolsDetect(store, latency_threshold_ms, kafka_lag_threshold) ==
    /\ probe' = [impl   |-> "mcp_tools",
                 store  |-> store,
                 latency_threshold_ms |-> latency_threshold_ms,
                 kafka_lag_threshold  |-> kafka_lag_threshold,
                 result |-> tools_detect_anomaly(store, "user-api",
                               latency_threshold_ms, kafka_lag_threshold)]
    /\ UNCHANGED <<pc, detection_result, prediction_result, healing_result,
                   response, calls, healing_history>>

\* POST /tools/detect_anomaly of mcp_server.py through call_mcp_tool
ServerDetect(store, latency_threshold_ms, kafka_lag_threshold) ==
    LET http == server_detect_anomaly(store, "user-api",
                    latency_threshold_ms, kafka_lag_threshold)
    IN  /\ probe' = [impl   |-> "mcp_server",
                     store  |-> store,
                     latency_threshold_ms |-> latency_threshold_ms,
                     kafka_lag_threshold  |-> kafka_lag_threshold,
                     status |-> http.status,
                     result |-> call_mcp_tool("detect_anomaly", http)]
        /\ UNCHANGED <<pc, detection_result, prediction_result, healing_result,
                       response, calls, healing_history>>

DetectNext ==
    \E store \in ProbeStores,
       latency_threshold_ms \in ProbeLatencyThresholds,
       kafka_lag_threshold \in ProbeKafkaLagThresholds :
        \/ ToolsDetect(store, latency_threshold_ms, kafka_lag_threshold)
        \/ ServerDetect(store, latency_threshold_ms, kafka_lag_threshold)

DetectSpec == Init /\ [][DetectNext]_vars

Probed == probe # NoValue

-----------------------------------------------------------------------------
(* Claims on detection, under DetectSpec *)

\* C7: for every result detection returns (row found, no data, table not
\* found, permission denied, unclassified error), anomaly_detected is true
\* if and only if the violations list is non-empty
C7_AnomalyIffViolations ==
    Probed =>
        (Get(probe.result, "anomaly_detected", FALSE)
            <=> Len(Get(probe.result, "violations", <<>>)) > 0)

C7_Witness ==
    /\ Probed
    /\ probe.store.kind = "rows"
    /\ Get(probe.result, "anomaly_detected", FALSE)
    /\ Len(probe.result.violations) = 1
    /\ probe.result.violations[1].rule = "Error rate violation"

\* the value of a nullable aggregate, NULL taken as 0
C8_Value(x) == IF x = <<>> THEN 0 ELSE x[1]

C8_Fired ==
    LET row == probe.store.row
    IN  {<<"latency", C8_Value(row.avg_latency_ms) > probe.latency_threshold_ms>>,
         <<"kafka_lag", C8_Value(row.avg_kafka_lag) > probe.kafka_lag_threshold>>,
         <<"error_rate", C8_Value(row.avg_error_rate) > 50>>}

\* C8: when the store returns a row, anomaly_detected is the OR of the three
\* strict comparisons avg_latency_ms > latency_threshold_ms, avg_kafka_lag >
\* kafka_lag_threshold, avg_error_rate > 0.05 (NULL taken as 0), and the
\* number of violations is the number of rules that fired
C8_StrictOrOfThreeRules ==
    (Probed /\ probe.store.kind = "rows") =>
        /\ probe.result.anomaly_detected <=> (\E f \in C8_Fired : f[2])
        /\ Len(probe.result.violations) = Cardinality({f \in C8_Fired : f[2]})

\* a latency exactly on its threshold, with only the error-rate rule firing
C8_Witness ==
    /\ Probed
    /\ probe.store.kind = "rows"
    /\ probe.store.row.avg_latency_ms = <<500>>
    /\ probe.latency_threshold_ms = 500
    /\ probe.store.row.avg_kafka_lag = <<5000>>
    /\ probe.kafka_lag_threshold = 5000
    /\ probe.store.row.avg_error_rate = <<51>>
    /\ probe.result.anomaly_detected
    /\ Len(probe.result.violations) = 1

C9_Rank(violation) ==
    CASE violation.rule = "Latency violation" -> 1
      [] violation.rule = "Kafka lag violation" -> 2
      [] violation.rule = "Error rate violation" -> 3
      [] OTHER -> 0

\* C9: the violations are a subsequence of <<latency, kafka lag, error rate>>:
\* each is one of the three kinds and the kinds strictly follow that order
C9_ViolationsInRuleOrder ==
    Probed =>
        LET violations == Get(probe.result, "violations", <<>>)
        IN  /\ \A i \in 1..Len(violations) : C9_Rank(violations[i]) > 0
            /\ \A i, j \in 1..Len(violations) :
                  i < j => C9_Rank(violations[i]) < C9_Rank(violations[j])

C9_Witness ==
    /\ Probed
    /\ probe.store.kind = "rows"
    /\ Len(probe.result.violations) = 3
    /\ probe.result.violations[1].rule = "Latency violation"
    /\ probe.result.violations[3].rule = "Error rate violation"

\* C10: when the query returns zero rows, detection returns
\* anomaly_detected = false, metrics absent, no violations and the error kind
\* NO_DATA, as a normal result (the endpoint answers 200)
C10_NoDataIsNormalResult ==
    (Probed /\ probe.store.kind = "empty") =>
        /\ DOMAIN probe.result =
              {"anomaly_detected", "service", "metrics", "violations",
               "recommendation", "error"}
        /\ probe.result.anomaly_detected = FALSE
        /\ probe.result.metrics = None
        /\ probe.result.violations = <<>>
        /\ probe.result.error = "NO_DATA"
        /\ probe.impl = "mcp_server" => probe.status = 200

C10_Witness ==
    /\ Probed
    /\ probe.store.kind = "empty"
    /\ probe.impl = "mcp_server"
    /\ probe.result.error = "NO_DATA"

-----------------------------------------------------------------------------
(* Claims on heal(), under Spec *)

Controller == {"scale_service", "restart_service", "verify_health"}

DetectionReturned(r) == detection_result[r] # NoValue

PredictionReturned(r) == prediction_result[r] # NoValue

\* C1: in every heal run whose detection result has anomaly_detected = false
\* or lacks the field, heal returns action_taken = "none" and predict_risk,
\* scale_service, restart_service and verify_health are invoked zero times
C1_NoAnomalyNoCalls ==
    \A r \in Runs :
        (DetectionReturned(r)
         /\ ~Get(detection_result[r], "anomaly_detected", FALSE)) =>
            /\ pc[r] = "returned"
            /\ Get(response[r].body, "action_taken", "absent") = "none"
            /\ \A tool \in Controller \cup {"predict_risk"} : calls[r][tool] = 0

\* a run whose detect_anomaly call failed, and one whose row had no violation
C1_Witness ==
    \E r1, r2 \in Runs :
        /\ pc[r1] = "returned" /\ pc[r2] = "returned"
        /\ "anomaly_detected" \notin DOMAIN detection_result[r1]
        /\ "anomaly_detected" \in DOMAIN detection_result[r2]
        /\ detection_result[r2].metrics # None
        /\ response[r1].body.action_taken = "none"
        /\ response[r2].body.action_taken = "none"

\* C2: predict_risk is issued only after the run's detect_anomaly call has
\* returned, and scale_service or restart_service only after the run's
\* predict_risk call has returned; a run awaiting one stage has the results
\* of all the stages before it
C2_StagesSequential ==
    \A r \in Runs :
        /\ calls[r]["predict_risk"] > 0 =>
              (DetectionReturned(r) /\ calls[r]["detect_anomaly"] > 0)
        /\ (calls[r]["scale_service"] > 0 \/ calls[r]["restart_service"] > 0) =>
              (PredictionReturned(r) /\ calls[r]["predict_risk"] > 0)
        /\ pc[r] = "detect_anomaly" => ~DetectionReturned(r)
        /\ pc[r] = "predict_risk" => ~PredictionReturned(r)
        /\ pc[r] \in {"scale_service", "restart_service"} =>
              healing_result[r] = NoValue

\* one run awaits the controller while another still awaits detection
C2_Witness ==
    \E r1, r2 \in Runs :
        /\ pc[r1] = "scale_service"
        /\ PredictionReturned(r1)
        /\ pc[r2] = "detect_anomaly"

C3_Stage(p) ==
    CASE p = "idle" -> 0
      [] p = "detect_anomaly" -> 1
      [] p = "predict_risk" -> 2
      [] p \in {"scale_service", "restart_service"} -> 3
      [] p = "sleep" -> 4
      [] p = "verify_health" -> 5
      [] OTHER -> 6

\* C3: no operation is retried: in every step each run stays at its stage or
\* moves to a later one, and no tool has been invoked more than once by a
\* run, whatever the answers were
C3_NoRetry ==
    [][\A r \in Runs :
          /\ pc'[r] # pc[r] => C3_Stage(pc'[r]) > C3_Stage(pc[r])
          /\ \A tool \in Tools : calls'[r][tool] <= 1]_vars

\* a run that ended after its single scale_service call failed
C3_Witness ==
    \E r \in Runs :
        /\ pc[r] = "returned"
        /\ calls[r]["scale_service"] = 1
        /\ healing_result[r].success = FALSE
        /\ calls[r]["verify_health"] = 0

\* C4 (the claim as stated): heal never raises to its caller, so POST /heal
\* answers 200 whatever the stages returned
C4_HealNeverRaises ==
    \A r \in Runs :
        /\ pc[r] # "raised"
        /\ response[r] # NoValue => response[r].status = 200

Returned == {r \in Runs : pc[r] = "returned"}

\* C5 (the claim as stated): the length of the history equals the number of
\* heal runs that have completed
C5_HistoryCountsCompletedRuns ==
    Len(healing_history) = Cardinality(Returned)

EntriesOf(r) ==
    {i \in 1..Len(healing_history) : healing_history[i].service = r}

\* C6 (the claim as stated): once all the concurrent runs, one per service,
\* have completed, the history holds exactly one entry per run
C6_OneEntryPerConcurrentRun ==
    (\A r \in Runs : pc[r] = "returned") =>
        /\ Len(healing_history) = NumRuns
        /\ \A r \in Runs : Cardinality(EntriesOf(r)) = 1

-----------------------------------------------------------------------------
(* C11, under DetectSpec *)

\* C11 (the claim as stated): for every failure of the metrics store,
\* detect_anomaly returns a well-formed result with anomaly_detected = false,
\* no violations and an error kind that tells TABLE_NOT_FOUND,
\* PERMISSION_DENIED and the unclassified fallback apart, instead of an
\* exception or an error response
C11_DetectionNeverThrows ==
    (Probed /\ probe.store.kind = "raise") =>
        /\ probe.impl = "mcp_server" => probe.status = 200
        /\ {"anomaly_detected", "violations", "metrics", "error"}
              \subseteq DOMAIN probe.result
        /\ Get(probe.result, "anomaly_detected", TRUE) = FALSE
        /\ Get(probe.result, "violations", <<"absent">>) = <<>>
        /\ Get(probe.result, "error", "absent") =
              (CASE probe.store.exc = "NotFound" -> "TABLE_NOT_FOUND"
                 [] probe.store.exc = "Forbidden" -> "PERMISSION_DENIED"
                 [] OTHER -> probe.store.exc)

-----------------------------------------------------------------------------
(* mcp_tools.py: predict_risk, the FastMCP tool *)

\* lines 442-452: the JSONDecodeError clause
ToolsParseFailure(service) ==
    [success            |-> FALSE,
     error              |-> "json_parse_error",
     service            |-> service,
     risk_score         |-> JInt(50),
     recommended_action |-> "monitor",
     confidence         |-> "low",
     message            |-> "Failed to parse Gemini response"]

\* `reasoning.parse` is what json.loads does with the text after the
\* clean-up of lines 427-431; the brace counts are never looked at
tools_predict_risk(reasoning, service, metrics) ==
    IF reasoning.kind = "raise" THEN PredictFailure(service, reasoning.exc)
    ELSE IF reasoning.parse = "JSONDecodeError" THEN ToolsParseFailure(service)
    ELSE IF reasoning.parse = "not an object"
    THEN PredictFailure(service, "TypeError")
    ELSE Merge([success |-> TRUE, service |-> service], reasoning.json)

-----------------------------------------------------------------------------
(* predict_risk called directly, on every kind of reasoning-service answer *)

ProbeMetrics ==
    {Metrics(Row(<<latency>>, <<5000>>, <<rate>>)) :
        latency \in {500, 501, 1500, 1501}, rate \in {50, 51}}

BraceCounts == {0, 1, 2}

\* a text that parses to an object holds at least one '{' and one '}'; the
\* counts may still differ, braces inside strings being counted too
ProbeReasonings ==
    {[kind |-> "text", lbraces |-> l, rbraces |-> r, parse |-> "ok", json |-> o] :
        l \in BraceCounts \ {0}, r \in BraceCounts \ {0}, o \in ReasoningObjects}
    \cup {[kind |-> "text", lbraces |-> l, rbraces |-> r, parse |-> p] :
        l \in BraceCounts, r \in BraceCounts,
        p \in {"JSONDecodeError", "not an object"}}
    \cup {[kind |-> "raise", exc |-> "ServiceUnavailable"]}

\* POST /tools/predict_risk of mcp_server.py
ServerPredict(reasoning, metrics) ==
    /\ probe' = [impl      |-> "mcp_server",
                 reasoning |-> reasoning,
                 metrics   |-> metrics,
                 result    |-> server_predict_risk(reasoning, "user-api", metrics)]
    /\ UNCHANGED <<pc, detection_result, prediction_result, healing_result,
                   response, calls, healing_history>>

\* the FastMCP tool of mcp_tools.py is invoked
ToolsPredict(reasoning, metrics) ==
    /\ probe' = [impl      |-> "mcp_tools",
                 reasoning |-> reasoning,
                 metrics   |-> metrics,
                 result    |-> tools_predict_risk(reasoning, "user-api", metrics)]
    /\ UNCHANGED <<pc, detection_result, prediction_result, healing_result,
                   response, calls, healing_history>>

PredictNext ==
    \E reasoning \in ProbeReasonings, metrics \in ProbeMetrics :
        \/ ServerPredict(reasoning, metrics)
        \/ ToolsPredict(reasoning, metrics)

PredictSpec == Init /\ [][PredictNext]_vars

Truncated ==
    /\ Probed
    /\ probe.reasoning.kind = "text"
    /\ probe.reasoning.lbraces # probe.reasoning.rbraces

\* C12 (the claim as stated): a response whose '{' and '}' counts differ is
\* answered with the fallback assessment: 85 / scale_up when the latency
\* threshold (500 ms) or the error-rate threshold (5%) is exceeded by the
\* metrics, 50 / monitor otherwise
C12_TruncatedGivesFallback ==
    Truncated =>
        IF \/ probe.metrics.avg_latency_ms > LATENCY_THRESHOLD_MS
           \/ probe.metrics.avg_error_rate > ERROR_RATE_THRESHOLD
        THEN /\ probe.result.risk_score = JInt(85)
             /\ probe.result.recommended_action = "scale_up"
        ELSE /\ probe.result.risk_score = JInt(50)
             /\ probe.result.recommended_action = "monitor"

PredictionFailed ==
    /\ Probed
    /\ \/ probe.reasoning.kind = "raise"
       \/ /\ probe.reasoning.kind = "text"
          /\ probe.reasoning.parse # "ok"
          /\ probe.impl = "mcp_server" =>
                probe.reasoning.lbraces = probe.reasoning.rbraces

\* C13 (the claim as stated): when the reasoning call raises or the response
\* does not parse, predict returns success = false, risk_score = 0,
\* recommended_action = "monitor", confidence = "low" and an error message
C13_FailedPredictionDefaults ==
    PredictionFailed =>
        /\ probe.result.success = FALSE
        /\ probe.result.risk_score = JInt(0)
        /\ probe.result.recommended_action = "monitor"
        /\ probe.result.confidence = "low"
        /\ "error" \in DOMAIN probe.result

-----------------------------------------------------------------------------
(* The pure steps of the root agent called directly: the alias table,       *)
(* healer_agent's dispatch, the verification written after a scale           *)

ActionStrings ==
    {"scale_up", "restart", "monitor", "escalate_human",
     "scale_out", "scale", "restart_service", "alert",
     "Scale_Out", "SCALE", "Alert", "scale_up ", "unrecognized_xyz", ""}

\* risk_score as the reasoning service may send it: an integer or a string
ProbeRiskScores == {JInt(n) : n \in -10..110} \cup {JStr("high")}

\* heal() line 404 on a recommended_action
Normalize(action) ==
    /\ probe' = [fn         |-> "normalize",
                 action     |-> action,
                 normalized |-> normalized_action(action),
                 again      |-> normalized_action(normalized_action(action))]
    /\ UNCHANGED <<pc, detection_result, prediction_result, healing_result,
                   response, calls, healing_history>>

\* healer_agent entered with an action and a risk score
HealerDispatch(action, risk_score) ==
    /\ probe' = [fn         |-> "healer_agent",
                 action     |-> action,
                 risk_score |-> risk_score,
                 step       |-> healer_agent(action, risk_score)]
    /\ UNCHANGED <<pc, detection_result, prediction_result, healing_result,
                   response, calls, healing_history>>

\* mcp_tools.verify_health lines 761-796: ready is the status of the first
\* condition, whatever its type; an empty condition list raises IndexError
\* inside the try, and every exception becomes a success = false dict
tools_verify_health(proc, service) ==
    IF proc.kind = "raise"
    THEN [success |-> FALSE, service |-> service, error |-> proc.exc]
    ELSE IF proc.code = 0
    THEN IF "conditions" \notin DOMAIN proc
         THEN [success |-> TRUE, service |-> service, ready |-> FALSE]
         ELSE IF Len(proc.conditions) = 0
         THEN [success |-> FALSE, service |-> service, error |-> "IndexError"]
         ELSE [success |-> TRUE, service |-> service,
               ready |-> proc.conditions[1].status = "True"]
    ELSE [success |-> FALSE, service |-> service, error |-> proc.stderr]

Condition ==
    [type : {"Ready", "ConfigurationsReady"}, status : {"True", "False", "Unknown"}]

\* what `gcloud run services describe` can answer when it exits 0
DescribeOutputs ==
    {[kind |-> "exit", code |-> 0]}
    \cup {[kind |-> "exit", code |-> 0, conditions |-> conditions] :
             conditions \in {<<>>} \cup {<<c>> : c \in Condition}
                            \cup {<<c, d>> : c \in Condition, d \in Condition}}

\* healer_agent lines 289-299, after a scale that succeeded, on the answer of
\* either verify_health
HealerVerify(impl, answer) ==
    LET http == IF impl = "mcp_tools"
                THEN [status |-> 200,
                      body |-> tools_verify_health(answer, "user-api")]
                ELSE IF "kind" \in DOMAIN answer
                THEN server_verify_health(answer, "user-api")
                ELSE answer
        verify_result == call_mcp_tool("verify_health", http)
    IN  /\ probe' = [fn            |-> "verify",
                     impl          |-> impl,
                     answer        |-> answer,
                     http          |-> http,
                     verification  |-> Verification(verify_result)]
        /\ UNCHANGED <<pc, detection_result, prediction_result, healing_result,
                       response, calls, healing_history>>

\* mcp_tools.scale_service lines 610-666
tools_scale_service(proc, service, min_instances, max_instances) ==
    IF proc.kind = "raise"
    THEN IF proc.exc = "TimeoutExpired"
         THEN [success |-> FALSE, service |-> service, action |-> "scale_timeout",
               error |-> "Command timeout after 60 seconds"]
         ELSE IF proc.exc = "FileNotFoundError"
         THEN [success |-> FALSE, service |-> service, action |-> "scale_failed",
               error |-> "gcloud CLI not found"]
         ELSE [success |-> FALSE, service |-> service, action |-> "scale_failed",
               error |-> proc.exc]
    ELSE IF proc.code = 0
    THEN [success |-> TRUE, service |-> service, action |-> "scaled",
          configuration |-> [min_instances |-> min_instances,
                             max_instances |-> max_instances]]
    ELSE [success |-> FALSE, service |-> service, action |-> "scale_failed",
          error |-> proc.stderr]

\* mcp_tools.restart_service lines 702-728: every exception gives str(e)
tools_restart_service(proc, service) ==
    IF proc.kind = "raise"
    THEN [success |-> FALSE, service |-> service, action |-> "restart_failed",
          error |-> proc.exc]
    ELSE IF proc.code = 0
    THEN [success |-> TRUE, service |-> service, action |-> "restarted"]
    ELSE [success |-> FALSE, service |-> service, action |-> "restart_failed",
          error |-> proc.stderr]

\* what the caller of one scale or restart invocation gets back
ControllerResult(impl, tool, proc) ==
    IF impl = "mcp_tools"
    THEN IF tool = "scale_service"
         THEN tools_scale_service(proc, "user-api", 5, 20)
         ELSE tools_restart_service(proc, "user-api")
    ELSE call_mcp_tool(tool,
            IF tool = "scale_service"
            THEN server_scale_service(proc, "user-api", 5, 20)
            ELSE server_restart_service(proc, "user-api"))

\* the same operation invoked twice, the controller answering proc1 and proc2
ControllerPair(impl, tool, proc1, proc2) ==
    /\ probe' = [fn      |-> "controller",
                 impl    |-> impl,
                 tool    |-> tool,
                 procs   |-> <<proc1, proc2>>,
                 results |-> <<ControllerResult(impl, tool, proc1),
                               ControllerResult(impl, tool, proc2)>>]
    /\ UNCHANGED <<pc, detection_result, prediction_result, healing_result,
                   response, calls, healing_history>>

HealerNext ==
    \/ \E action \in ActionStrings : Normalize(action)
    \/ \E action \in ActionStrings, risk_score \in ProbeRiskScores :
          HealerDispatch(action, risk_score)
    \/ \E answer \in Procs \cup DescribeOutputs \cup Transport :
          HealerVerify("mcp_server", answer)
    \/ \E answer \in Procs \cup DescribeOutputs :
          HealerVerify("mcp_tools", answer)
    \/ \E impl \in {"mcp_server", "mcp_tools"},
          tool \in {"scale_service", "restart_service"},
          proc1 \in Procs, proc2 \in Procs :
          ControllerPair(impl, tool, proc1, proc2)

HealerSpec == Init /\ [][HealerNext]_vars

Normalized == Probed /\ probe.fn = "normalize"

C14_Alias(action) ==
    CASE action = "scale_out" -> "scale_up"
      [] action = "scale" -> "scale_up"
      [] action = "restart_service" -> "restart"
      [] action = "alert" -> "escalate_human"
      [] OTHER -> action

\* C14: normalization maps exactly scale_out -> scale_up, scale -> scale_up,
\* restart_service -> restart, alert -> escalate_human by case-sensitive exact
\* match and returns every other string unchanged
C14_ExactlyFourAliases ==
    Normalized => probe.normalized = C14_Alias(probe.action)

\* a differently-cased alias passes through
C14_Witness ==
    /\ Normalized
    /\ probe.action = "Scale_Out"
    /\ probe.normalized = "Scale_Out"

\* C15: normalize(normalize(a)) = normalize(a) for every action string a, and
\* no alias target is itself an alias key
C15_NormalizeIdempotent ==
    /\ Normalized => probe.again = probe.normalized
    /\ \A key \in DOMAIN action_aliases :
          action_aliases[key] \notin DOMAIN action_aliases

C15_Witness ==
    /\ Normalized
    /\ probe.action = "scale"
    /\ probe.normalized = "scale_up"
    /\ probe.again = "scale_up"

Dispatched == Probed /\ probe.fn = "healer_agent"

\* C16: for scale_up the healer requests (min 5, max 20) when risk_score >=
\* 80, (min 3, max 15) when 50 <= risk_score < 80 and (min 2, max 10)
\* otherwise, for every integer risk_score, and min < max always
C16_ScaleBoundsByRiskTier ==
    (Dispatched /\ probe.action = "scale_up" /\ probe.risk_score.type = "int") =>
        /\ probe.step.do = "post"
        /\ probe.step.tool = "scale_service"
        /\ probe.step.min_instances < probe.step.max_instances
        /\ LET risk_score == probe.risk_score.value
               requested == <<probe.step.min_instances, probe.step.max_instances>>
           IN  /\ risk_score >= 80 => requested = <<5, 20>>
               /\ (risk_score >= 50 /\ risk_score < 80) => requested = <<3, 15>>
               /\ risk_score < 50 => requested = <<2, 10>>

\* the lowest score of the top tier
C16_Witness ==
    /\ Dispatched
    /\ probe.action = "scale_up"
    /\ probe.risk_score = JInt(80)
    /\ probe.step.min_instances = 5

Verified == Probed /\ probe.fn = "verify"

C18_ReportedReady ==
    /\ Get(probe.http, "status", 0) = 200
    /\ probe.http.body.success
    /\ probe.http.body.ready

\* C18: after a successful scale the verification is "healthy" if and only if
\* the verify operation succeeded and reported the service ready, "pending"
\* in every other case, and never any other value
C18_HealthyIffVerifiedReady ==
    Verified =>
        /\ probe.verification \in {"healthy", "pending"}
        /\ probe.verification = "healthy" <=> C18_ReportedReady

\* describe exits 0 and reports a service that is not ready
C18_Witness ==
    /\ Verified
    /\ probe.impl = "mcp_server"
    /\ probe.answer = [kind |-> "exit", code |-> 0,
                       conditions |-> <<[type |-> "Ready", status |-> "False"]>>]
    /\ probe.verification = "pending"

\* C19: for the actions monitor and escalate_human the healer makes no
\* external call and returns success = true, for every risk_score
C19_MonitorEscalateNoCall ==
    (Dispatched /\ probe.action \in {"monitor", "escalate_human"}) =>
        /\ probe.step.do = "return"
        /\ probe.step.result.success

\* escalate_human with a risk score that is not a number
C19_Witness ==
    /\ Dispatched
    /\ probe.action = "escalate_human"
    /\ probe.risk_score = JStr("high")
    /\ probe.step.do = "return"

-----------------------------------------------------------------------------
(* Claims on the healer inside heal(), under Spec *)

Recommended(r) ==
    normalized_action(Get(prediction_result[r], "recommended_action", "monitor"))

HealerReturned(r) == pc[r] = "returned" /\ healing_result[r] # NoValue

C17_VerifyOnlyAfterScaled(r) ==
    calls'[r]["verify_health"] > calls[r]["verify_health"] =>
        /\ pc[r] = "sleep"
        /\ Recommended(r) = "scale_up"
        /\ calls[r]["scale_service"] = 1
        /\ calls[r]["restart_service"] = 0
        /\ calls[r]["verify_health"] = 0
        /\ Get(healing_result[r], "success", FALSE)

C17_VerificationOnlyIfVerified(r) ==
    (HealerReturned(r)' /\ ~HealerReturned(r)) =>
        ("verification" \in DOMAIN healing_result'[r]
            <=> calls[r]["verify_health"] > 0)

\* C17: verify_health is invoked in a run only after the run's scale_service
\* call returned success and the grace wait is over; never after a failed
\* scale nor for restart, monitor, escalate_human or an unknown action, and
\* then the healing result carries no verification
C17_VerifyOnlyAfterSuccessfulScale ==
    [][\A r \in Runs : /\ C17_VerifyOnlyAfterScaled(r)
                       /\ C17_VerificationOnlyIfVerified(r)]_vars

\* one run verified after its scale, one returned a failed scale unverified
C17_Witness ==
    \E r1, r2 \in Runs :
        /\ HealerReturned(r1)
        /\ "verification" \in DOMAIN healing_result[r1]
        /\ calls[r1]["verify_health"] = 1
        /\ HealerReturned(r2)
        /\ calls[r2]["scale_service"] = 1
        /\ ~healing_result[r2].success
        /\ calls[r2]["verify_health"] = 0
        /\ "verification" \notin DOMAIN healing_result[r2]

CanonicalActions == {"scale_up", "restart", "monitor", "escalate_human"}

\* C20: for an action outside {scale_up, restart, monitor, escalate_human}
\* the healer returns success = false with an unknown-action error, no
\* controller operation is invoked and nothing is retried
C20_UnknownActionFails ==
    \A r \in Runs :
        (PredictionReturned(r) /\ Recommended(r) \notin CanonicalActions) =>
            /\ HealerReturned(r)
            /\ healing_result[r] = UnknownActionResult(Recommended(r))
            /\ ~healing_result[r].success
            /\ \A tool \in Controller : calls[r][tool] = 0
            /\ calls[r]["detect_anomaly"] = 1
            /\ calls[r]["predict_risk"] = 1

\* the reasoning service recommended "Scale_Up"
C20_Witness ==
    \E r \in Runs :
        /\ HealerReturned(r)
        /\ Recommended(r) = "Scale_Up"
        /\ healing_result[r].error = <<"Unknown action", "Scale_Up">>

-----------------------------------------------------------------------------
(* Controller failures as the healer's caller sees them, under HealerSpec *)

FailureMode(proc) ==
    IF proc.kind = "raise" THEN proc.exc
    ELSE IF proc.code # 0 THEN "non-zero exit"
    ELSE "none"

\* C21: a command timeout, an unavailable controller tool and a non-zero exit
\* of a scale or restart invocation each reach the caller as success = false,
\* and two different failure modes give different error strings
C21_FailureModesDistinct ==
    (Probed /\ probe.fn = "controller") =>
        \A i, j \in 1..2 :
            LET mode_i == FailureMode(probe.procs[i])
                mode_j == FailureMode(probe.procs[j])
            IN  (mode_i # "none" /\ mode_j # "none") =>
                    /\ ~probe.results[i].success
                    /\ "error" \in DOMAIN probe.results[i]
                    /\ mode_i # mode_j =>
                          probe.results[i].error # probe.results[j].error

-----------------------------------------------------------------------------
(* get_history and GET /history, queried while heal runs append *)

\* Python's seq[start:] for an integer start
PySliceFrom(seq, start) ==
    LET n == Len(seq)
        from == IF start < 0
                THEN IF start + n < 0 THEN 0 ELSE start + n
                ELSE IF start > n THEN n ELSE start
    IN  SubSeq(seq, from + 1, n)

\* get_history line 461: self.healing_history[-limit:]
get_history(history, limit) == PySliceFrom(history, 0 - limit)

\* history_endpoint lines 522-523
history_endpoint(history, limit) ==
    LET incidents == get_history(history, limit)
    IN  [count |-> Len(incidents), incidents |-> incidents]

MaxPast == 3

\* services healed before the runs of the model started
PastServices == {0 - 1, 0 - 2, 0 - 3}

\* the report of an earlier run that scaled its service up
PastReport(service) ==
    LET detection ==
            RowResult(service, Row(<<1501>>, <<5001>>, <<51>>),
                      LATENCY_THRESHOLD_MS, KAFKA_LAG_THRESHOLD)
        prediction ==
            server_predict_risk(
                [kind |-> "text", lbraces |-> 1, rbraces |-> 1, parse |-> "ok",
                 json |-> ReasoningObject(JInt(90), "scale_up")],
                service, detection.metrics)
        healing ==
            Merge(call_mcp_tool("scale_service",
                      server_scale_service([kind |-> "exit", code |-> 0], service,
                                           ScaleBounds(90)[1], ScaleBounds(90)[2])),
                  [verification |-> "healthy"])
    IN  Report(service, detection, prediction, healing)

PastHistories ==
    UNION {[1..n -> {PastReport(service) : service \in PastServices}] :
              n \in 0..MaxPast}

\* the process has served earlier heal requests
HistoryInit ==
    /\ pc = [r \in Runs |-> "idle"]
    /\ detection_result = [r \in Runs |-> NoValue]
    /\ prediction_result = [r \in Runs |-> NoValue]
    /\ healing_result = [r \in Runs |-> NoValue]
    /\ response = [r \in Runs |-> NoValue]
    /\ calls = [r \in Runs |-> [t \in Tools |-> 0]]
    /\ healing_history \in PastHistories
    /\ probe = NoValue

Limits == (0 - 1)..(MaxPast + 2)

\* the query trimming the stored history to what it returns
GetHistoryMut(limit) ==
    /\ probe' = [fn      |-> "get_history",
                 limit   |-> limit,
                 history |-> healing_history,
                 body    |-> history_endpoint(healing_history, limit)]
    /\ healing_history' = get_history(healing_history, limit)
    /\ UNCHANGED <<pc, detection_result, prediction_result, healing_result,
                   response, calls>>

\* GET /history?limit=N: the answer, next to the history it was taken from
GetHistory(limit) ==
    /\ probe' = [fn      |-> "get_history",
                 limit   |-> limit,
                 history |-> healing_history,
                 body    |-> history_endpoint(healing_history, limit)]
    /\ UNCHANGED <<pc, detection_result, prediction_result, healing_result,
                   response, calls, healing_history>>

\* one heal request in flight, history queries arriving at any moment
HistoryNext ==
    \/ HealStart(1)
    \/ DetectorReturns(1)
    \/ PredictorReturns(1)
    \/ ScaleReturns(1)
    \/ SleepReturns(1)
    \/ VerifyReturns(1)
    \/ RestartReturns(1)
    \/ \E limit \in Limits : GetHistory(limit)

HistorySpec == HistoryInit /\ [][HistoryNext]_vars

Queried == Probed /\ probe.fn = "get_history"

C22_Min(a, b) == IF a < b THEN a ELSE b

\* C22: for every history h and every limit N >= 0, get_history(N) returns
\* the last min(N, len(h)) entries of h in insertion order, so never more
\* than N entries, and none for N = 0
C22_LastNEntries ==
    (Queried /\ probe.limit >= 0) =>
        LET h == probe.history
            k == C22_Min(probe.limit, Len(h))
        IN  /\ probe.body.count = k
            /\ probe.body.incidents = SubSeq(h, Len(h) - k + 1, Len(h))

\* C24: the history at any moment is a prefix of the history at every later
\* moment, across heal runs and history queries: no entry is removed,
\* replaced or reordered, and a query leaves the history unchanged
C24_AppendOnly ==
    [][/\ Len(healing_history') >= Len(healing_history)
       /\ SubSeq(healing_history', 1, Len(healing_history)) = healing_history
       /\ probe' # probe => healing_history' = healing_history]_vars

\* a query answered from a non-empty history, then a heal run appended
C24_Witness ==
    /\ Queried
    /\ probe.limit = 1
    /\ Len(probe.history) > 1
    /\ pc[1] = "returned"
    /\ healing_history = Append(probe.history, response[1].body)

-----------------------------------------------------------------------------
(* C23, under DetectSpec *)

DetectionResultReturned == Probed /\ "metrics" \in DOMAIN probe.result

\* C23 (the claim as stated): in every DetectionResult metrics is absent if
\* and only if no samples were found in the window, and an absent metrics
\* value implies the NO_DATA outcome
C23_AbsentIffNoSamples ==
    DetectionResultReturned =>
        /\ probe.result.metrics = None <=> probe.store.kind = "empty"
        /\ probe.result.metrics = None => probe.result.error = "NO_DATA"

\* C23 (amended): metrics is present if and only if the query returned a
\* row; a result without metrics carries an error kind, which is NO_DATA if
\* and only if the query ran and returned no row
C23_MetricsIffRow ==
    Probed =>
        LET metrics == Get(probe.result, "metrics", None)
        IN  /\ metrics # None <=> probe.store.kind = "rows"
            /\ metrics = None => "error" \in DOMAIN probe.result
            /\ Get(probe.result, "error", "absent") = "NO_DATA"
                  <=> probe.store.kind = "empty"

\* the table is missing: no metrics, and the outcome is not NO_DATA
C23_Witness ==
    /\ DetectionResultReturned
    /\ probe.impl = "mcp_tools"
    /\ probe.store.kind = "raise"
    /\ probe.result.metrics = None
    /\ probe.result.error = "TABLE_NOT_FOUND"

-----------------------------------------------------------------------------
(* What heal() hands to the healer and to the predictor *)

C26_NormalizedIsCanonical ==
    Normalized => probe.normalized \in CanonicalActions

C26_AliasKeys == {"scale_out", "scale", "restart_service", "alert"}

\* C26 (amended): the normalized action is canonical if and only if the
\* recommended action is canonical or one of the four aliases; any other
\* string reaches the healer unchanged
C26_CanonicalIffKnown ==
    Normalized =>
        /\ probe.normalized \in CanonicalActions
              <=> probe.action \in CanonicalActions \cup C26_AliasKeys
        /\ probe.normalized \notin CanonicalActions =>
              probe.normalized = probe.action

\* an alias in another case reaches the healer as it was written
C26_Witness ==
    /\ Normalized
    /\ probe.action = "Alert"
    /\ probe.normalized = "Alert"

\* a predict_risk request carries violations next to or inside its metrics
C27_CarriesViolations(request) ==
    \/ "violations" \in DOMAIN request
    \/ "violations" \in DOMAIN request.metrics

C27_RequestViolations(request) ==
    IF "violations" \in DOMAIN request THEN request.violations
    ELSE request.metrics.violations

\* C27: the predict_risk request of a heal run includes the metrics summary
\* and the violation list of that run's detection
C27_PredictorGetsViolations ==
    \A r \in Runs :
        calls[r]["predict_risk"] > 0 =>
            LET request == PredictRequest(r, detection_result[r])
            IN  /\ request.metrics = detection_result[r].metrics
                /\ C27_CarriesViolations(request)
                /\ C27_RequestViolations(request) = detection_result[r].violations

-----------------------------------------------------------------------------
(* C28, under PredictSpec *)

ServerTruncated == Truncated /\ probe.impl = "mcp_server"

C28_Fields ==
    {"risk_score", "root_cause", "recommended_action", "confidence", "reasoning"}

\* C28: two answers of the reasoning service that both have unbalanced
\* braces give, on the same metrics, assessments with the same risk_score,
\* root_cause, recommended_action, confidence and reasoning: nothing of the
\* malformed payload reaches the result
C28_FallbackOfMetricsOnly ==
    [][(ServerTruncated /\ ServerTruncated' /\ probe.metrics = probe'.metrics) =>
          \A field \in C28_Fields :
              /\ field \in DOMAIN probe.result
              /\ field \in DOMAIN probe'.result
              /\ probe.result[field] = probe'.result[field]]_vars

\* the payload asked for a restart and still the fallback answered
C28_Witness ==
    /\ ServerTruncated
    /\ probe.reasoning.parse = "ok"
    /\ Get(probe.reasoning.json, "recommended_action", "absent") = "restart"
    /\ probe.result.recommended_action = "scale_up"
    /\ probe.result.root_cause # probe.reasoning.json.root_cause

-----------------------------------------------------------------------------
(* The end of a heal run *)

\* C29: a scale whose controller call succeeded is reported with healing
\* success = true whether its verification is healthy or pending; pending
\* ends the run, which verifies once and does not poll again
C29_PendingIsNotFailure ==
    \A r \in Runs :
        /\ calls[r]["verify_health"] <= 1
        /\ (HealerReturned(r) /\ "verification" \in DOMAIN healing_result[r]) =>
              /\ healing_result[r].verification \in {"healthy", "pending"}
              /\ healing_result[r].success
              /\ response[r].body.healing = healing_result[r]
              /\ response[r].body.summary.success
              /\ calls[r]["scale_service"] = 1
              /\ calls[r]["verify_health"] = 1

\* one run ended pending, one healthy, both reported as successful
C29_Witness ==
    \E r1, r2 \in Runs :
        /\ HealerReturned(r1) /\ HealerReturned(r2)
        /\ Get(healing_result[r1], "verification", "absent") = "pending"
        /\ Get(healing_result[r2], "verification", "absent") = "healthy"
        /\ response[r1].body.summary.success
        /\ response[r2].body.summary.success

\* every external call and the grace wait eventually return or time out;
\* nothing obliges a request to arrive
FairSpec ==
    /\ Spec
    /\ \A r \in Runs :
          /\ WF_vars(DetectorReturns(r))
          /\ WF_vars(PredictorReturns(r))
          /\ WF_vars(ScaleReturns(r))
          /\ WF_vars(SleepReturns(r))
          /\ WF_vars(VerifyReturns(r))
          /\ WF_vars(RestartReturns(r))

C30_ExternalCalls(r) ==
    calls[r]["detect_anomaly"] + calls[r]["predict_risk"]
    + calls[r]["scale_service"] + calls[r]["restart_service"]
    + calls[r]["verify_health"]

\* every heal run reaches its end, with a result or with an exception, after
\* at most four external calls
HealTerminates ==
    /\ [](\A r \in Runs : C30_ExternalCalls(r) <= 4)
    /\ \A r \in Runs : (pc[r] # "idle") ~> (pc[r] \in {"returned", "raised"})

\* C30: every started heal invocation eventually returns a result, after at
\* most four external calls (detect, predict, scale or restart, verify),
\* under any interleaving with other runs
C30_EveryRunReturnsResult ==
    /\ [](\A r \in Runs : C30_ExternalCalls(r) <= 4)
    /\ \A r \in Runs : (pc[r] # "idle") ~> (pc[r] = "returned")

-----------------------------------------------------------------------------
(* C31, under PredictSpec *)

\* detection, with the orchestrator's thresholds, reports a latency or an
\* error-rate violation on the probed metrics
C31_LatencyOrErrorRateViolation ==
    \E i \in 1..Len(Violations(probe.metrics, LATENCY_THRESHOLD_MS,
                               KAFKA_LAG_THRESHOLD)) :
        Violations(probe.metrics, LATENCY_THRESHOLD_MS, KAFKA_LAG_THRESHOLD)[i].rule
            \in {"Latency violation", "Error rate violation"}

\* C31: whenever detection reported a latency or an error-rate violation and
\* the reasoning-service response is truncated, the fallback assessment is
\* risk_score 85 with scale_up, and the healer issues a scale request with
\* (min 5, max 20)
C31_ViolationGivesScaleFallback ==
    (ServerTruncated /\ C31_LatencyOrErrorRateViolation) =>
        /\ probe.result.risk_score = JInt(85)
        /\ probe.result.recommended_action = "scale_up"
        /\ healer_agent(normalized_action(probe.result.recommended_action),
                        probe.result.risk_score)
              = [do |-> "post", tool |-> "scale_service",
                 min_instances |-> 5, max_instances |-> 20]

-----------------------------------------------------------------------------
(* C32, under Spec *)

\* the prediction stage of run r failed: call_mcp_tool returned its error
\* dictionary or predict_risk returned its failure assessment
C32_PredictionStageFailed(r) ==
    /\ PredictionReturned(r)
    /\ "success" \in DOMAIN prediction_result[r]
    /\ ~prediction_result[r].success

\* C32: when the prediction stage of a heal run fails (success = false), the
\* action dispatched to the healer is monitor and no controller operation
\* (scale, restart, describe) is invoked in that run
C32_FailedPredictionOnlyMonitors ==
    \A r \in Runs :
        C32_PredictionStageFailed(r) =>
            /\ Recommended(r) = "monitor"
            /\ \A tool \in Controller : calls[r][tool] = 0
            /\ pc[r] = "returned"
            /\ healing_result[r] = MonitorResult

\* one run whose predict_risk call errored and one whose response did not
\* parse, both returned after monitoring
C32_Witness ==
    \E r1, r2 \in Runs :
        /\ C32_PredictionStageFailed(r1)
        /\ "tool" \in DOMAIN prediction_result[r1]
        /\ C32_PredictionStageFailed(r2)
        /\ Get(prediction_result[r2], "error", "") = "JSONDecodeError"
        /\ healing_result[r1] = MonitorResult
        /\ healing_result[r2] = MonitorResult
        /\ calls[r1]["predict_risk"] = 1
        /\ calls[r2]["predict_risk"] = 1

-----------------------------------------------------------------------------
(* C33, under Spec *)

\* the detection stage of run r failed: the detect_anomaly call got no answer
\* or the endpoint answered 500 for a store error, and call_mcp_tool returned
\* its error dictionary
C33_DetectionStageFailed(r) ==
    /\ DetectionReturned(r)
    /\ "tool" \in DOMAIN detection_result[r]
    /\ ~detection_result[r].success

\* C33: whenever the detection stage failed, the heal result does not report
\* success = true with the message that the service is operating normally
C33_FailedDetectionNotReportedNormal ==
    \A r \in Runs :
        (C33_DetectionStageFailed(r) /\ pc[r] = "returned") =>
            ~ /\ response[r].body.success
              /\ Get(response[r].body, "message", "") = "Service operating normally"

-----------------------------------------------------------------------------
(* C34 and C35, under Spec *)

\* C34: the top-level success of an incident report is false whenever the
\* healing stage returned success = false, and true only when the healing
\* stage succeeded
C34_ReportSuccessIsHealingSuccess ==
    \A r \in Runs :
        HealerReturned(r) =>
            (response[r].body.success <=> Get(healing_result[r], "success", FALSE))

\* C35: the action_taken of an incident report's summary is the normalized
\* action, the one that was dispatched to the healer in that run
C35_ActionTakenIsDispatchedAction ==
    \A r \in Runs :
        HealerReturned(r) =>
            response[r].body.summary.action_taken = Recommended(r)

-----------------------------------------------------------------------------
(* heal runs under a clock: ClockSpec, for C36 *)

MaxTime == 2

\* the readings of a monotonic clock
Instants == 0..MaxTime

ClockInit ==
    /\ pc = [r \in Runs |-> "idle"]
    /\ detection_result = [r \in Runs |-> NoValue]
    /\ prediction_result = [r \in Runs |-> NoValue]
    /\ healing_result = [r \in Runs |-> NoValue]
    /\ response = [r \in Runs |-> NoValue]
    /\ calls = [r \in Runs |-> [t \in Tools |-> 0]]
    /\ healing_history = <<>>
    /\ probe = [fn |-> "clock", now |-> 0, start_time |-> [r \in Runs |-> 0]]

\* time passes while the event loop waits
Tick ==
    /\ probe.now + 1 \in Instants
    /\ probe' = [probe EXCEPT !.now = @ + 1]
    /\ UNCHANGED <<pc, detection_result, prediction_result, healing_result,
                   response, calls, healing_history>>

\* POST /heal arrives: line 368 reads start_time, heal() runs to the await in
\* detector_agent
ClockHealStart(r) ==
    /\ pc[r] = "idle"
    /\ Post(r, "detect_anomaly")
    /\ probe' = [probe EXCEPT !.start_time[r] = probe.now]
    /\ UNCHANGED <<detection_result, prediction_result, healing_result,
                   response, healing_history>>

\* the answers the timed runs get: one row with a latency violation or no
\* answer at all, an assessment that parsed, a controller that succeeded
ClockAnswered(r) ==
    /\ DetectionReturned(r) =>
          \/ "tool" \in DOMAIN detection_result[r]
          \/ /\ Get(detection_result[r], "anomaly_detected", FALSE)
             /\ detection_result[r].metrics.avg_latency_ms = 501
    /\ PredictionReturned(r) =>
          /\ Get(prediction_result[r], "root_cause", "") = "cause"
          /\ Get(prediction_result[r], "risk_score", JInt(0)).type = "int"
          /\ Get(prediction_result[r], "risk_score", JInt(0)).value \in {30, 90}
          /\ Get(prediction_result[r], "recommended_action", "")
                \in {"scale_up", "restart", "monitor"}
    /\ healing_result[r] # NoValue =>
          /\ healing_result[r].success
          /\ Get(healing_result[r], "verification", "healthy") = "healthy"

\* the steps of a run after its start, with the answers above
ClockDetectorReturns(r) == DetectorReturns(r) /\ ClockAnswered(r)'

ClockPredictorReturns(r) == PredictorReturns(r) /\ ClockAnswered(r)'

ClockScaleReturns(r) == ScaleReturns(r) /\ ClockAnswered(r)'

ClockVerifyReturns(r) == VerifyReturns(r) /\ ClockAnswered(r)'

ClockRestartReturns(r) == RestartReturns(r) /\ ClockAnswered(r)'

ClockNext ==
    \/ Tick
    \/ \E r \in Runs :
        \/ ClockHealStart(r)
        \/ ClockDetectorReturns(r)
        \/ ClockPredictorReturns(r)
        \/ ClockScaleReturns(r)
        \/ SleepReturns(r)
        \/ ClockVerifyReturns(r)
        \/ ClockRestartReturns(r)

ClockSpec == ClockInit /\ [][ClockNext]_vars

\* C36: HealingHistory is ordered by run completion, not by run start: of any
\* two entries the earlier one finished no later than the other, so end_time
\* is non-decreasing along the history, also when a run that started later
\* overtakes one that started earlier
C36_HistoryOrderedByCompletion ==
    \A i, j \in 1..Len(healing_history) :
        i < j => /\ healing_history[i].end_time <= healing_history[j].end_time
                 /\ healing_history[i].start_time <= healing_history[i].end_time

\* a run that started later finished first and stands first in the history
C36_Witness ==
    /\ Len(healing_history) >= 2
    /\ healing_history[1].start_time > healing_history[2].start_time
    /\ healing_history[1].end_time < healing_history[2].end_time

-----------------------------------------------------------------------------
(* C37, under DetectSpec *)

\* what the implementation that was not probed returns for the probed store
\* outcome and thresholds; the endpoint's answer as call_mcp_tool hands it
\* to the orchestrator
C37_OtherImplementation ==
    IF probe.impl = "mcp_tools"
    THEN call_mcp_tool("detect_anomaly",
             server_detect_anomaly(probe.store, "user-api",
                 probe.latency_threshold_ms, probe.kafka_lag_threshold))
    ELSE tools_detect_anomaly(probe.store, "user-api",
             probe.latency_threshold_ms, probe.kafka_lag_threshold)

C37_SameField(field) ==
    /\ field \in DOMAIN probe.result <=> field \in DOMAIN C37_OtherImplementation
    /\ (field \in DOMAIN probe.result /\ field \in DOMAIN C37_OtherImplementation)
          => probe.result[field] = C37_OtherImplementation[field]

\* C37: for the same store outcome (row, empty result or store error) and the
\* same thresholds, the FastMCP tool of mcp_tools.py and the endpoint of
\* mcp_server.py return the same anomaly_detected verdict, the same violations
\* and the same error kind
C37_ImplementationsEquivalent ==
    Probed => /\ C37_SameField("anomaly_detected")
              /\ C37_SameField("violations")
              /\ C37_SameField("error")

====
